---- MODULE Spec2Model ----
(***************************************************************************)
(* Model of the asset import pipeline of gob (src/asset): the single-asset *)
(* import/save closures of ErasedAssetImporter, the batch import_assets,   *)
(* the fixed-point loop full_import and the reverse-dependency files       *)
(* written by update_dependents, over a file system kept as four           *)
(* directories of word sequences (one word stands for eight bytes); the    *)
(* byte codec of bytes.rs byte by byte, the importer registry over         *)
(* DenseMap (dense.rs), and TaskPool (background.rs).                      *)
(***************************************************************************)
EXTENDS Integers, Sequences, FiniteSets, TLC

-----------------------------------------------------------------------------
(* Bounds of the model *)

\* AssetId::gen mints the ids 1..MaxId, in this order
MaxId == 2
\* the pass counter of full_import counts exactly up to MaxPasses
MaxPasses == 3
\* the abstract checksum takes values in 0..ChecksumSpace-1
ChecksumSpace == 2
\* the byte codec is called on the u64 values 257 * i for i in 0..MaxItem
MaxItem == 3
\* the byte decoders are called on the encodings of sets of up to
\* MaxDecoded items and on what is left of them when bytes are cut or changed
MaxDecoded == 2
\* chunked_import is called on path lists of up to MaxChunks full chunks
\* and one path
MaxChunks == 2
\* an AssetImporters is followed over up to MaxRegistered register calls
MaxRegistered == 4
\* a TaskPool is created with a size in 0..MaxSize
MaxSize == 2
\* up to MaxTasks tasks are passed to TaskPool::spawn
MaxTasks == 3
\* up to MaxScoped tasks are passed to ScopedTaskPool::spawn
MaxScoped == 4
\* a DenseMap is followed while it holds up to MaxEntries entries
MaxEntries == 3

-----------------------------------------------------------------------------
(* Paths, ids and the importer registry *)

TxtPaths == {"a.txt", "b.txt"}
Paths == TxtPaths \cup {"x.unknown", "noext"}

\* AssetId(u64); 0 is AssetId::default()
AssetIds == 0..MaxId
DefaultId == 0

\* the dependency sets the registered importer can declare for a source
DepChoices == {{}, {2}}

\* PathExt::ext: the extension of a path, "" standing for None
Ext(p) == CASE p = "a.txt" -> "txt"
            [] p = "b.txt" -> "txt"
            [] p = "x.unknown" -> "unknown"
            [] OTHER -> ""

\* AssetType::from::<A>() of the one registered importer, and its extensions
TxtType == 7
RegisteredExts == {"txt"}

\* a registry that finds an importer for every extension
ImporterByExtAny(ext) == TRUE

\* AssetImporters::importer_by_ext
ImporterByExt(ext) == ext \in RegisteredExts

\* S::default() of the registered importer's settings
DefaultSettings == 0

-----------------------------------------------------------------------------
(* Files *)

\* the content read from a path that holds no file
NoFile == <<-1>>
Exists(f) == f # NoFile

\* the content a user gives a source file
SourceText == <<101>>

\* the values AssetFileSystem::modified_secs yields
Modifieds == {0}

RECURSIVE SumSeq(_)
SumSeq(s) == IF s = <<>> THEN 0 ELSE Head(s) + SumSeq(Tail(s))

-----------------------------------------------------------------------------
(* Byte codec (bytes.rs) *)

\* the length of the little-endian encoding of a u64
WordLen == 8

\* one iteration order of a HashSet: ascending
RECURSIVE SetToSeq(_)
SetToSeq(S) ==
  IF S = {} THEN <<>>
  ELSE LET m == CHOOSE x \in S : \A y \in S : x <= y
       IN <<m>> \o SetToSeq(S \ {m})

RECURSIVE EncodeItems(_)
EncodeItems(s) ==
  IF s = <<>> THEN <<>>
  ELSE <<WordLen, Head(s)>> \o EncodeItems(Tail(s))

\* HashSet<I>::into_bytes: len, then per item its length and its bytes
HashSetIntoBytes(S) == <<Cardinality(S)>> \o EncodeItems(SetToSeq(S))

Panic == [kind |-> "panic", val |-> {}, rest |-> <<>>]

\* the loop of HashSet<I>::from_bytes; a slice out of range or a
\* copy_from_slice of a length other than 8 panics
RECURSIVE DecodeItems(_, _, _)
DecodeItems(bytes, n, acc) ==
  IF n = 0 THEN [kind |-> "some", val |-> acc, rest |-> bytes]
  ELSE IF Len(bytes) < 2 THEN Panic
  ELSE IF bytes[1] # WordLen THEN Panic
  ELSE DecodeItems(SubSeq(bytes, 3, Len(bytes)), n - 1, acc \cup {bytes[2]})

\* HashSet<I>::from_bytes
HashSetFromBytes(bytes) ==
  IF Len(bytes) < 1 \/ bytes[1] < 0 THEN Panic
  ELSE DecodeItems(Tail(bytes), bytes[1], {})

-----------------------------------------------------------------------------
(* Byte codec, byte by byte (bytes.rs) *)

RECURSIVE ToLeBytes(_, _)
\* the k low bytes of n, least significant first
ToLeBytes(n, k) == IF k = 0 THEN <<>> ELSE <<n % 256>> \o ToLeBytes(n \div 256, k - 1)

RECURSIVE FromLeBytes(_)
\* u64::from_le_bytes
FromLeBytes(buf) == IF buf = <<>> THEN 0 ELSE Head(buf) + 256 * FromLeBytes(Tail(buf))

\* what a decoder comes to: a value, None, or a panic
Decoded(v) == [kind |-> "some", val |-> v]
Aborted == [kind |-> "panic", val |-> 0]

\* u64::into_bytes, usize::into_bytes, AssetId::into_bytes
U64IntoBytes(n) == ToLeBytes(n, WordLen)

\* u64::from_bytes, usize::from_bytes, AssetId::from_bytes: copy_from_slice
\* panics unless the slice is as long as the buffer
U64FromBytes(bytes) ==
  IF Len(bytes) # WordLen THEN Aborted ELSE Decoded(FromLeBytes(bytes))

RECURSIVE ItemsIntoBytes(_)
\* the for loop of HashSet<I>::into_bytes over the items as they are iterated
ItemsIntoBytes(items) ==
  IF items = <<>> THEN <<>>
  ELSE U64IntoBytes(Len(U64IntoBytes(Head(items)))) \o U64IntoBytes(Head(items))
       \o ItemsIntoBytes(Tail(items))

\* an encoding without the number of items
SetIntoBytesCountless(items) == ItemsIntoBytes(items)

\* HashSet<I>::into_bytes of a set iterated in the order items
SetIntoBytes(items) == U64IntoBytes(Len(items)) \o ItemsIntoBytes(items)

\* &bytes[from..]
SliceFrom(bytes, from) == SubSeq(bytes, from + 1, Len(bytes))

RECURSIVE ItemsFromBytes(_, _, _)
\* the for loop of HashSet<I>::from_bytes: &bytes[0..8] and
\* &bytes[0..item_len] panic when the slice is shorter
ItemsFromBytes(bytes, n, set) ==
  IF n = 0 THEN Decoded(set)
  ELSE IF Len(bytes) < WordLen THEN Aborted
  ELSE LET item_len == U64FromBytes(SubSeq(bytes, 1, WordLen))
           rest == SliceFrom(bytes, WordLen)
       IN IF item_len.kind # "some" THEN item_len
          ELSE IF item_len.val > Len(rest) THEN Aborted
          ELSE LET item == U64FromBytes(SubSeq(rest, 1, item_len.val))
               IN IF item.kind # "some" THEN item
                  ELSE ItemsFromBytes(SliceFrom(rest, item_len.val), n - 1,
                                      set \cup {item.val})

\* HashSet<I>::from_bytes
SetFromBytes(bytes) ==
  IF Len(bytes) < WordLen THEN Aborted
  ELSE LET len == U64FromBytes(SubSeq(bytes, 1, WordLen))
       IN IF len.kind # "some" THEN len
          ELSE ItemsFromBytes(SliceFrom(bytes, WordLen), len.val, {})

-----------------------------------------------------------------------------
(* Artifact and its codec (artifact.rs; the bodies are todo!() in the      *)
(* source and are modelled from the documented layout)                     *)

Meta(id, ty, checksum, modified, deps) ==
  [id |-> id, ty |-> ty, checksum |-> checksum, modified |-> modified,
   dependencies |-> deps]

\* ArtifactMeta::default()
DefaultMeta == Meta(DefaultId, 0, 0, 0, {})

None == [some |-> FALSE, meta |-> DefaultMeta]
Some(m) == [some |-> TRUE, meta |-> m]

\* id, ty, checksum, modified, then the dependency set
ArtifactMetaIntoBytes(m) ==
  <<m.id, m.ty, m.checksum, m.modified>> \o HashSetIntoBytes(m.dependencies)

ArtifactMetaFromBytes(bytes) ==
  IF Len(bytes) < 5 THEN None
  ELSE LET d == HashSetFromBytes(SubSeq(bytes, 5, Len(bytes)))
       IN IF d.kind = "some" /\ d.rest = <<>>
          THEN Some(Meta(bytes[1], bytes[2], bytes[3], bytes[4], d.val))
          ELSE None

\* the length of the encoded meta, the encoded meta, the payload
ArtifactIntoBytes(m, payload) ==
  LET mb == ArtifactMetaIntoBytes(m) IN <<Len(mb)>> \o mb \o payload

\* ArtifactMeta::removed_dependencies
RemovedDependencies(prev, new) == prev.dependencies \ new.dependencies

\* Artifact::from_bytes
ArtifactFromBytes(bytes) ==
  IF Len(bytes) < 1 \/ bytes[1] < 0 \/ Len(bytes) < 1 + bytes[1] THEN None
  ELSE ArtifactMetaFromBytes(SubSeq(bytes, 2, 1 + bytes[1]))

-----------------------------------------------------------------------------
(* Metadata sidecar (mod.rs, io/mod.rs) *)

\* the keys of the two fields AssetMetadata serializes
TomlId == 1
TomlSettings == 2

Metadata(id, settings) == [id |-> id, settings |-> settings]

\* toml::to_string of an AssetMetadata
TomlToString(md) == <<TomlId, md.id, TomlSettings, md.settings>>

\* a sidecar an edit left without its settings: the id is kept
WithoutSettings(doc) == SubSeq(doc, 1, 2)

\* the id a sidecar holds, whether or not the sidecar decodes
SidecarId(doc) == IF Len(doc) >= 2 /\ doc[1] = TomlId THEN doc[2] ELSE DefaultId - 1

\* toml::from_str::<AssetMetadata<S>>: both fields are required
TomlFromStr(doc) ==
  IF Len(doc) = 4 /\ doc[1] = TomlId /\ doc[3] = TomlSettings
  THEN [ok |-> TRUE, md |-> Metadata(doc[2], doc[4])]
  ELSE [ok |-> FALSE, md |-> Metadata(DefaultId, DefaultSettings)]

\* load_metadata whose result is dropped
LoadMetadataDropped(file) == [ok |-> FALSE, md |-> Metadata(DefaultId, DefaultSettings)]

\* AssetFileSystem::load_metadata
LoadMetadata(file) ==
  IF Exists(file) THEN TomlFromStr(file)
  ELSE [ok |-> FALSE, md |-> Metadata(DefaultId, DefaultSettings)]

\* AssetId::gen: the next id never handed out (MaxId once they ran out)
AssetIdGen(st) == IF st.nextId > MaxId THEN MaxId ELSE st.nextId

\* a derived Default: the id is AssetId::default()
AssetMetadataDerivedDefault(st) == Metadata(DefaultId, DefaultSettings)

\* AssetMetadata::default()
AssetMetadataDefault(st) == Metadata(AssetIdGen(st), DefaultSettings)

\* AssetFileSystem::calculate_checksum, CRC32 abstracted to a small hash
CalculateChecksum(asset, metadata) ==
  (SumSeq(asset) + 3 * SumSeq(metadata)) % ChecksumSpace

\* AssetFileSystem::load_artifact_meta: the 8-byte length, then the meta
LoadArtifactMeta(st, id) ==
  LET file == st.artifacts[id]
  IN IF ~Exists(file) \/ Len(file) < 1 THEN None
     ELSE IF file[1] < 0 \/ Len(file) < 1 + file[1] THEN None
     ELSE ArtifactMetaFromBytes(SubSeq(file, 2, 1 + file[1]))

\* AssetFileSystem::load_artifact
LoadArtifact(st, id) ==
  LET file == st.artifacts[id]
  IN IF ~Exists(file) THEN None ELSE ArtifactFromBytes(file)

-----------------------------------------------------------------------------
(* Single-asset import (importer.rs) *)

\* what a call of the pipeline may meet: a failing read of the source, a
\* failing importer, a failing processor, a failing write of the artifact,
\* the age of the source file
Faults == {"none", "read", "importer", "process", "save"}
Oracles == [fault : Faults, modified : Modifieds]

\* AssetImporters::importer: the importer registered for an asset type
Importer(ty) == ty = TxtType

\* the artifact an id has on disk, wherever save wrote it
StoredMeta(st, id) ==
  LET files == {st.source[p] : p \in Paths} \cup {st.artifacts[i] : i \in AssetIds}
      held == {f \in files : Len(f) > 1 /\ f[2] = id /\ ArtifactFromBytes(f).some}
  IN IF held = {} THEN None ELSE ArtifactFromBytes(CHOOSE f \in held : TRUE)

\* what the process step of an import_asset call saw: the dependencies the
\* importer declared, those with a loadable artifact of a registered importer
\* in the cache when the step began, the AssetStore when the step began, and
\* the ids ProcessContext::asset answers with an asset
Processing(declared, loadable, store, visible) ==
  [declared |-> declared, loadable |-> loadable, store |-> store, visible |-> visible]
NoProcessing == Processing({}, {}, {}, {})

\* the outcome of import_asset for one path; steps are the stages the call
\* entered, in the order it entered them
Result(path, stage, id, hadSidecar, meta, prev, removed, before, proc, met, steps) ==
  [path |-> path, ok |-> stage = "saved", stage |-> stage, id |-> id,
   hadSidecar |-> hadSidecar, meta |-> meta, prev |-> prev,
   removed |-> removed, before |-> before, proc |-> proc, met |-> met,
   steps |-> steps]

\* the stages of the import closure: the sidecar is written, then the source
\* is read and imported
Imported == <<"sidecar", "import">>
\* the stages of import_asset up to the call of the processor
Processed == Imported \o <<"load", "process">>

RECURSIVE LoadImportDependencies(_, _, _)
\* load_import_dependencies over the ids in the order the HashSet yields them:
\* the AssetStore it leaves
LoadImportDependencies(ids, st, assets) ==
  IF ids = <<>> THEN assets
  ELSE IF Head(ids) \in assets THEN assets
  ELSE IF ~LoadArtifact(st, Head(ids)).some
  THEN LoadImportDependencies(Tail(ids), st, assets)
  ELSE IF ~Importer(LoadArtifact(st, Head(ids)).meta.ty)
  THEN LoadImportDependencies(Tail(ids), st, assets)
  ELSE LoadImportDependencies(Tail(ids), st, assets \cup {Head(ids)})

\* ProcessContext::asset for every id: the ids it answers with an asset
ProcessContextAsset(dependencies, assets) ==
  {id \in AssetIds : id \in dependencies /\ id \in assets}

\* a processor that adds an edge of its own
ProcessSmuggling(dependencies) == dependencies \cup {DefaultId}

\* the dependencies of the artifact meta after P::process ran on the asset
\* with a ProcessContext holding them by shared reference
Process(dependencies) == dependencies

\* I::import of the registered importer: it yields the same asset from every
\* source
ImporterImport(bytes) == 0

\* I::Saver::save: the payload of the artifact
SaverSave(asset) == <<asset>>

\* as Save, were the error of load_artifact_meta handed to the caller
SaveOverReadable(st, path, id, meta, asset, orc, hadSidecar, before, proc, steps) ==
  LET prev_artifact == LoadArtifactMeta(st, meta.id)
      artifact_bytes == ArtifactIntoBytes(meta, SaverSave(asset))
  IN IF orc.fault = "save" \/ ~prev_artifact.some
     THEN [st |-> st,
           res |-> Result(path, "save", id, hadSidecar, DefaultMeta, prev_artifact, {},
                          before, proc, orc.fault, steps \o <<"save">>)]
     ELSE [st |-> [st EXCEPT !.source[path] = artifact_bytes],
           res |-> Result(path, "saved", id, hadSidecar, meta, prev_artifact,
                          RemovedDependencies(prev_artifact.meta, meta),
                          before, proc, orc.fault, steps \o <<"save">>)]

\* the save closure of ErasedAssetImporter::new
Save(st, path, id, meta, asset, orc, hadSidecar, before, proc, steps) ==
  LET prev_artifact == LoadArtifactMeta(st, meta.id)
      bytes == SaverSave(asset)
      artifact_bytes == ArtifactIntoBytes(meta, bytes)
  IN IF orc.fault = "save"
     THEN [st |-> st,
           res |-> Result(path, "save", id, hadSidecar, DefaultMeta, prev_artifact, {},
                          before, proc, orc.fault, steps \o <<"save">>)]
     ELSE LET removed == IF prev_artifact.some
                         THEN RemovedDependencies(prev_artifact.meta, meta)
                         ELSE {}
          IN [st |-> [st EXCEPT !.source[path] = artifact_bytes],
              res |-> Result(path, "saved", id, hadSidecar, meta, prev_artifact, removed,
                             before, proc, orc.fault, steps \o <<"save">>)]

\* a process step that fails the import when a declared dependency has no
\* loadable artifact
ProcessAndSaveStrict(st, path, artifact, asset, orc, hadSidecar, before) ==
  LET assets == LoadImportDependencies(orc.order, st, st.store)
      proc == Processing(artifact.dependencies,
                         {d \in artifact.dependencies :
                            LoadArtifact(st, d).some /\ Importer(LoadArtifact(st, d).meta.ty)},
                         st.store,
                         ProcessContextAsset(artifact.dependencies, assets))
  IN IF orc.fault = "process" \/ proc.loadable # proc.declared
     THEN [st |-> [st EXCEPT !.store = assets],
           res |-> Result(path, "process", artifact.id, hadSidecar, DefaultMeta, None, {},
                          before, proc, orc.fault, Imported \o <<"load">>)]
     ELSE Save([st EXCEPT !.store = assets], path, artifact.id,
               [artifact EXCEPT !.dependencies = Process(@)], asset, orc, hadSidecar,
               before, proc, Processed)

\* the process step of import_asset and the save after it: the dependencies
\* are loaded into the AssetStore, the processor runs, the asset is saved
ProcessAndSave(st, path, artifact, asset, orc, hadSidecar, before) ==
  LET assets == LoadImportDependencies(orc.order, st, st.store)
      proc == Processing(artifact.dependencies,
                         {d \in artifact.dependencies :
                            LoadArtifact(st, d).some /\ Importer(LoadArtifact(st, d).meta.ty)},
                         st.store,
                         ProcessContextAsset(artifact.dependencies, assets))
  IN IF orc.fault = "process"
     THEN [st |-> [st EXCEPT !.store = assets],
           res |-> Result(path, "process", artifact.id, hadSidecar, DefaultMeta, None, {},
                          before, proc, orc.fault, Processed)]
     ELSE Save([st EXCEPT !.store = assets], path, artifact.id,
               [artifact EXCEPT !.dependencies = Process(@)], asset, orc, hadSidecar,
               before, proc, Processed)

\* the import closure of ErasedAssetImporter::new, then process and save
\* as import_asset chains them
Import(st, path, decl, orc) ==
  LET loaded == LoadMetadata(st.sidecar[path])
      metadata == IF loaded.ok THEN loaded.md ELSE AssetMetadataDefault(st)
      metabytes == TomlToString(metadata)
      st1 == [st EXCEPT !.sidecar[path] = metabytes,
                        !.nextId = IF loaded.ok THEN @ ELSE @ + 1,
                        !.overflow = @ \/ (~loaded.ok /\ st.nextId > MaxId)]
      bytes == st1.source[path]
      before == StoredMeta(st, metadata.id)
  IN IF ~Exists(bytes) \/ orc.fault = "read"
     THEN [st |-> st1,
           res |-> Result(path, "read", metadata.id, loaded.ok, DefaultMeta, None, {},
                          before, NoProcessing, orc.fault, Imported)]
     ELSE IF orc.fault = "importer"
     THEN [st |-> st1,
           res |-> Result(path, "importer", metadata.id, loaded.ok, DefaultMeta, None, {},
                          before, NoProcessing, orc.fault, Imported)]
     ELSE LET asset == ImporterImport(bytes)
              dependencies == decl[path]
              checksum == CalculateChecksum(bytes, metabytes)
              artifact == Meta(metadata.id, TxtType, checksum, orc.modified, dependencies)
          IN IF st.processer
             THEN ProcessAndSave(st1, path, artifact, asset, orc, loaded.ok, before)
             ELSE Save(st1, path, metadata.id, artifact, asset, orc, loaded.ok, before,
                       NoProcessing, Imported)

\* import_asset
ImportAsset(st, path, decl, orc) ==
  IF Ext(path) = "" \/ ~ImporterByExt(Ext(path))
  THEN [st |-> st,
        res |-> Result(path, "dispatch", DefaultId, FALSE, DefaultMeta, None, {}, None,
                       NoProcessing, "none", <<>>)]
  ELSE Import(st, path, decl, orc)

-----------------------------------------------------------------------------
(* Batches (importer.rs) *)

\* paths.chunks(250)
ChunkSize == 250

\* the outcomes of the first paths of a for loop, then those of the paths
\* after them
Cons(done, rest) == [results |-> done.results \o rest.results, st |-> rest.st]

\* the outcome of import_asset on one path as the outcome of a loop over it
One(r) == [st |-> r.st, results |-> <<r.res>>]

RECURSIVE ImportPaths(_, _, _, _, _, _)
\* a for loop that ends at the first path whose import failed
ImportRestAborting(done, paths, decl, orcs, i, j) ==
  IF \A k \in DOMAIN done.results : done.results[k].ok
  THEN Cons(done, ImportPaths(done.st, paths, decl, orcs, i, j))
  ELSE done

\* a for loop that deletes what a failed import left at its path
ImportRestCleaning(done, paths, decl, orcs, i, j) ==
  Cons(done,
       ImportPaths([done.st EXCEPT !.source =
                      [p \in Paths |->
                         IF \E k \in DOMAIN done.results :
                              done.results[k].path = p /\ ~done.results[k].ok
                         THEN NoFile ELSE @[p]]],
                   paths, decl, orcs, i, j))

\* the rest paths[i..j] of the for loop after the paths before them came to
\* done
ImportRest(done, paths, decl, orcs, i, j) ==
  Cons(done, ImportPaths(done.st, paths, decl, orcs, i, j))

\* the for loop of import_assets over paths[i..j]: one path, or the paths up
\* to the middle and then the rest
ImportPaths(st, paths, decl, orcs, i, j) ==
  IF i > j THEN [st |-> st, results |-> <<>>]
  ELSE IF i = j THEN One(ImportAsset(st, paths[i], decl, orcs[i]))
  ELSE ImportRest(ImportPaths(st, paths, decl, orcs, i, (i + j) \div 2),
                  paths, decl, orcs, (i + j) \div 2 + 1, j)

Saved(results) == {results[i] : i \in {j \in DOMAIN results : results[j].ok}}

\* dep_updates of import_assets: the ids mentioned and their DependentUpdates
Mentioned(results) ==
  UNION {r.meta.dependencies \cup r.removed : r \in Saved(results)}
Added(results, dep) == {r.id : r \in {x \in Saved(results) : dep \in x.meta.dependencies}}
Removed(results, dep) == {r.id : r \in {x \in Saved(results) : dep \in x.removed}}

\* update_dependents on the file of one id: the file after the call, and
\* whether the call panicked
UpdateDependents(file, added, removed) ==
  IF ~Exists(file) THEN [file |-> file, ok |-> FALSE, panic |-> FALSE]
  ELSE LET decoded == HashSetFromBytes(file)
           dependents == (decoded.val \cup added) \ removed
       IN IF decoded.kind = "panic"
          THEN [file |-> file, ok |-> FALSE, panic |-> TRUE]
          ELSE IF dependents # {}
          THEN [file |-> HashSetIntoBytes(dependents), ok |-> TRUE, panic |-> FALSE]
          ELSE [file |-> NoFile, ok |-> TRUE, panic |-> FALSE]

\* the update_dependents call of import_assets for every id of dep_updates:
\* done is the outcome of the for loop
Updates(done) ==
  [id \in AssetIds |->
     IF id \in Mentioned(done.results)
     THEN UpdateDependents(done.st.dependents[id],
                           Added(done.results, id), Removed(done.results, id))
     ELSE [file |-> done.st.dependents[id], ok |-> TRUE, panic |-> FALSE]]

\* the ImportErrors import_assets keeps of the paths that failed: the Err arm
\* of its match drops the error and goes on to the next path
KeptErrors(results) == {}

\* a returned set that takes the removed ids as well
ReturnedIdsWithRemoved(results) ==
  UNION {Added(results, id) \cup Removed(results, id) : id \in Mentioned(results)}

\* the set import_assets returns: returned.extend(updates.added()) for every
\* id of dep_updates
ReturnedIds(results) == UNION {Added(results, id) : id \in Mentioned(results)}

\* the state after the update_dependents calls, what each path came to, the
\* ids whose update_dependents call returned Ok, and the returned id set
Returned(done, upd) ==
  [st |-> [done.st EXCEPT !.dependents = [id \in AssetIds |-> upd[id].file],
                          !.panicked = @ \/ (\E id \in Mentioned(done.results) : upd[id].panic)],
   results |-> done.results,
   applied |-> {id \in Mentioned(done.results) : upd[id].ok},
   errors |-> KeptErrors(done.results),
   returned |-> ReturnedIds(done.results)]

\* import_assets after its for loop
UpdateAll(done) == Returned(done, Updates(done))

\* import_assets: the AssetStore is new, the paths are imported, the
\* dependents files are updated
ImportAssets(st, paths, decl, orcs) ==
  UpdateAll(ImportPaths([st EXCEPT !.store = {}], paths, decl, orcs, 1, Len(paths)))

\* the outcomes of two chunks, one after the other
Chunks(first, rest) ==
  [st |-> rest.st, results |-> first.results \o rest.results,
   applied |-> first.applied \cup rest.applied,
   errors |-> first.errors \cup rest.errors,
   returned |-> first.returned \cup rest.returned]

RECURSIVE ChunkedImport(_, _, _, _)
\* chunks that begin at the last path of the chunk before
NextChunksOverlapping(first, paths, decl, orcs) ==
  Chunks(first, ChunkedImport(first.st, SubSeq(paths, ChunkSize, Len(paths)), decl,
                              SubSeq(orcs, ChunkSize, Len(orcs))))

\* the chunks after the first chunk came to first
NextChunks(first, paths, decl, orcs) ==
  Chunks(first, ChunkedImport(first.st, SubSeq(paths, ChunkSize + 1, Len(paths)), decl,
                              SubSeq(orcs, ChunkSize + 1, Len(orcs))))

\* chunked_import: import_assets on every chunk of ChunkSize paths
ChunkedImport(st, paths, decl, orcs) ==
  IF Len(paths) <= ChunkSize THEN ImportAssets(st, paths, decl, orcs)
  ELSE NextChunks(ImportAssets(st, SubSeq(paths, 1, ChunkSize), decl,
                               SubSeq(orcs, 1, ChunkSize)), paths, decl, orcs)

-----------------------------------------------------------------------------
(* DenseMap (dense.rs) and the importer registry (importer.rs) *)

\* DenseMap::new; in map the index 0 stands for an absent key, the index
\* i + 1 for the index i of the Vecs
DenseMapNew(keys) == [values |-> <<>>, keys |-> <<>>, map |-> [k \in keys |-> 0]]

\* DenseMap::insert
DenseMapInsert(m, key, value) ==
  [values |-> Append(m.values, value),
   keys |-> Append(m.keys, key),
   map |-> [m.map EXCEPT ![key] = Len(m.values) + 1]]

\* DenseMap::get, "" standing for None
DenseMapGet(m, key) == IF m.map[key] = 0 THEN "" ELSE m.values[m.map[key]]

\* what a call that takes the map by &mut comes to: the map after it, or a
\* panic that leaves no map
Returns(m) == [m |-> m, aborted |-> FALSE]
Aborts(m) == [m |-> m, aborted |-> TRUE]

\* Vec::remove
VecRemove(v, i) == SubSeq(v, 1, i - 1) \o SubSeq(v, i + 1, Len(v))

\* Vec::swap_remove: the last element takes the place of the removed one
VecSwapRemove(v, i) ==
  IF i = Len(v) THEN SubSeq(v, 1, Len(v) - 1)
  ELSE [SubSeq(v, 1, Len(v) - 1) EXCEPT ![i] = v[Len(v)]]

\* DenseMap::remove: Vec::remove and self.keys[index] panic when the index
\* is out of bounds
DenseMapRemove(m, key) ==
  LET index == m.map[key]
      keys == VecRemove(m.keys, index)
  IN IF index = 0 THEN Returns(m)
     ELSE IF index > Len(m.values) \/ index > Len(keys) THEN Aborts(m)
     ELSE Returns([values |-> VecRemove(m.values, index),
                   keys |-> keys,
                   map |-> [[m.map EXCEPT ![key] = 0] EXCEPT ![keys[index]] = index]])

\* DenseMap::swap_remove
DenseMapSwapRemove(m, key) ==
  LET index == m.map[key]
      keys == VecSwapRemove(m.keys, index)
  IN IF index = 0 THEN Returns(m)
     ELSE IF index > Len(m.values) \/ index > Len(keys) THEN Aborts(m)
     ELSE Returns([values |-> VecSwapRemove(m.values, index),
                   keys |-> keys,
                   map |-> [[m.map EXCEPT ![key] = 0] EXCEPT ![keys[index]] = index]])

RECURSIVE DenseMapRetainFrom(_, _, _)
\* the while loop of DenseMap::retain from the index i on; f holds of the
\* entries whose key is in keep
DenseMapRetainFrom(m, keep, i) ==
  IF i > Len(m.values) THEN m
  ELSE IF m.keys[i] \in keep THEN DenseMapRetainFrom(m, keep, i + 1)
  ELSE DenseMapRetainFrom([values |-> VecRemove(m.values, i),
                           keys |-> VecRemove(m.keys, i),
                           map |-> [m.map EXCEPT ![m.keys[i]] = 0]], keep, i)

\* DenseMap::retain
DenseMapRetain(m, keep) == Returns(DenseMapRetainFrom(m, keep, 1))

\* the importers a program may register, each with AssetType::from of its
\* Asset and its extensions(): png and jpg produce the same asset type, alt
\* declares an extension of txt under another asset type
ImporterImpls ==
  {[name |-> "png", asset |-> 1, exts |-> {"png"}],
   [name |-> "jpg", asset |-> 1, exts |-> {"jpg"}],
   [name |-> "txt", asset |-> 2, exts |-> {"txt", "md"}],
   [name |-> "alt", asset |-> 3, exts |-> {"txt"}]}

\* the asset types and extensions a registry is asked for
AssetTypes == 1..4
Extensions == {"png", "jpg", "txt", "md", "bin"}

\* AssetImporters::new; in types the asset type 0 stands for an absent
\* extension; calls are the register calls made so far
AssetImportersNew ==
  [importers |-> DenseMapNew(AssetTypes), types |-> [e \in Extensions |-> 0], calls |-> <<>>]

\* AssetImporters::register::<I>
Register(reg, I) ==
  [importers |-> DenseMapInsert(reg.importers, I.asset, I.name),
   types |-> [e \in Extensions |-> IF e \in I.exts THEN I.asset ELSE reg.types[e]],
   calls |-> Append(reg.calls, I)]

\* AssetImporters::importer of a registry, "" standing for None
RegisteredImporter(reg, ty) == DenseMapGet(reg.importers, ty)

\* AssetImporters::importer_by_ext of a registry, "" standing for None
RegisteredByExt(reg, ext) ==
  IF reg.types[ext] = 0 THEN "" ELSE RegisteredImporter(reg, reg.types[ext])

-----------------------------------------------------------------------------
(* TaskPool (background.rs) *)

\* TaskPool::new: the TaskPoolState (size, running, queue), the threads
\* spawned so far with the task each was given and where it is in its
\* closure, where the owner of the pool is in spawn or drop, the handles drop
\* took to join, and the number of tasks passed to spawn
TaskPoolNew(size) ==
  [size |-> size, running |-> {}, queue |-> <<>>, threads |-> <<>>,
   owner |-> "idle", joining |-> {}, spawned |-> 0]

\* the thread std::thread::spawn starts with a task: it is in task()
Thread(task) == [at |-> "task", task |-> task]

\* a run_one that does not look at the number of running workers
RunOneUncapped(p) ==
  IF p.queue # <<>>
  THEN [p EXCEPT !.queue = Tail(@),
                 !.threads = Append(@, Thread(Head(p.queue))),
                 !.running = @ \cup {Len(p.threads) + 1}]
  ELSE p

\* a run_one that takes the task pushed last
RunOneFromBack(p) ==
  IF Cardinality(p.running) >= p.size THEN p
  ELSE IF p.queue # <<>>
  THEN [p EXCEPT !.queue = SubSeq(@, 1, Len(@) - 1),
                 !.threads = Append(@, Thread(p.queue[Len(p.queue)])),
                 !.running = @ \cup {Len(p.threads) + 1}]
  ELSE p

\* TaskPool::run_one under the lock: the ThreadId of a thread is its index
\* in threads
RunOne(p) ==
  IF Cardinality(p.running) >= p.size THEN p
  ELSE IF p.queue # <<>>
  THEN [p EXCEPT !.queue = Tail(@),
                 !.threads = Append(@, Thread(Head(p.queue))),
                 !.running = @ \cup {Len(p.threads) + 1}]
  ELSE p

\* a worker that ends once it has removed itself from the running table
RemoveAndExit(p, k) ==
  [p EXCEPT !.running = @ \ {k}, !.threads[k].at = "exited"]

\* the closure of a worker after task(): under the lock it removes its
\* ThreadId from running, and goes on to run_one
Remove(p, k) ==
  [p EXCEPT !.running = @ \ {k}, !.threads[k].at = "run_one"]

-----------------------------------------------------------------------------
(* ScopedTaskPool *)

\* ScopedTaskPool::new; threads are the threads of all scopes so far, each
\* with its task, the number of threads started before its scope was entered
\* (which names its chunk) and its position; at is the position of the owner
ScopedTaskPoolNew(size) ==
  [size |-> size, queue |-> <<>>, threads |-> <<>>, at |-> "idle", spawned |-> 0]

\* ScopedTaskPool::spawn: the tasks are numbered in the order they are passed
ScopedPush(s) ==
  [s EXCEPT !.queue = Append(@, s.spawned + 1), !.spawned = @ + 1, !.at = "idle"]

ScopedThread(task, chunk) == [task |-> task, chunk |-> chunk, at |-> "task"]

\* as Drain, were the chunk not cut to size
DrainWhole(s) ==
  [s EXCEPT !.queue = <<>>,
            !.threads = @ \o [i \in 1..Len(s.queue) |->
                                ScopedThread(s.queue[i], Len(s.threads))],
            !.at = "scope"]

\* the body of the while of run up to the scope's wait: min(len, size) tasks
\* are drained from the front and a scoped thread is started for each
Drain(s) ==
  LET len == IF Len(s.queue) < s.size THEN Len(s.queue) ELSE s.size
  IN  [s EXCEPT !.queue = SubSeq(@, len + 1, Len(@)),
                !.threads = @ \o [i \in 1..len |->
                                    ScopedThread(s.queue[i], Len(s.threads))],
                !.at = "scope"]

-----------------------------------------------------------------------------
(* State *)

VARIABLES
  source,      \* the source files, by path
  sidecar,     \* the sidecars <path>.meta, by path
  artifacts,   \* .cache/artifacts/<id>, by id
  dependents,  \* .temp/dependents/<id>, by id
  nextId,      \* the next id AssetId::gen hands out
  panicked,    \* the process aborted in a panic
  declared,    \* the dependencies the importer declares for each source
  libIds,      \* AssetLibrary.ids, path -> id (DefaultId - 1 standing for absent)
  libPaths,    \* AssetLibrary.paths, id -> path ("" standing for absent)
  pc,          \* "idle", "loop" (inside the while of full_import), "done"
  pending,     \* the local dependents of full_import
  passes,      \* the chunked_import calls of the current full_import
  input,       \* the paths the current full_import was called with
  last,        \* the last chunked_import: its paths, results and returned set
  processer,   \* the registered importer had set_processer called on it
  calc,        \* the last call of a function of the byte codec or of the batches
  registry,    \* an AssetImporters under a sequence of register calls
  pool,        \* a TaskPool, its queue, its running table and its threads
  scoped,      \* a ScopedTaskPool, its queue and the threads of its scopes
  dense        \* a DenseMap under a sequence of calls, and what was inserted

vars == <<source, sidecar, artifacts, dependents, nextId, panicked, declared,
          libIds, libPaths, pc, pending, passes, input, last,
          processer, calc, registry, pool, scoped, dense>>

\* what the import pipeline leaves alone
apart == <<processer, calc, registry, pool, scoped, dense>>

fsVars == <<source, sidecar, artifacts, dependents, nextId, panicked>>

\* the file system as the pipeline's operators take it
Fs == [source |-> source, sidecar |-> sidecar, artifacts |-> artifacts,
       dependents |-> dependents, nextId |-> nextId, overflow |-> FALSE,
       panicked |-> panicked, store |-> {}, processer |-> processer]

NoCalc == [op |-> "none"]
NoPool == TaskPoolNew(0)
NoScoped == ScopedTaskPoolNew(0)
NoDense == [map |-> DenseMapNew({}), aborted |-> FALSE, latest |-> <<>>]

\* the pipeline alone: nothing was computed apart from it, no registry, no
\* pool and no map are followed
Apart ==
  /\ calc = NoCalc /\ registry = AssetImportersNew /\ pool = NoPool
  /\ scoped = NoScoped /\ dense = NoDense

NoLast == [paths |-> <<>>, results |-> <<>>, applied |-> {}, errors |-> {}, returned |-> {}]
NoId == DefaultId - 1
NoPath == ""

Init ==
  /\ source = [p \in Paths |-> SourceText]
  /\ sidecar = [p \in Paths |-> NoFile]
  /\ artifacts = [i \in AssetIds |-> NoFile]
  /\ dependents = [i \in AssetIds |-> NoFile]
  /\ nextId = 1
  /\ panicked = FALSE
  /\ declared = [p \in Paths |-> {}]
  /\ libIds = [p \in Paths |-> NoId]
  /\ libPaths = [i \in AssetIds |-> NoPath]
  /\ pc = "idle"
  /\ pending = {}
  /\ passes = 0
  /\ input = <<>>
  /\ last = NoLast
  /\ processer = TRUE
  /\ Apart

-----------------------------------------------------------------------------
(* full_import (importer.rs) *)

\* the orders a HashSet may be drained in
Orders(S) ==
  {s \in [1..Cardinality(S) -> S] : \A i, j \in 1..Cardinality(S) : s[i] = s[j] => i = j}

RECURSIVE IdPaths(_, _)
\* filter_map(|id| db.library().id_path(&id).cloned()) over a drained order
IdPaths(ids, paths) ==
  IF ids = <<>> THEN <<>>
  ELSE IF paths[Head(ids)] = NoPath THEN IdPaths(Tail(ids), paths)
  ELSE <<paths[Head(ids)]>> \o IdPaths(Tail(ids), paths)

\* the path lists full_import is called with: one path, or two sources
Inputs ==
  {<<p>> : p \in Paths} \cup ({<<p, q>> : p, q \in TxtPaths} \ {<<p, p>> : p \in Paths})

\* what the calls of one chunked_import meet: at most one of them a fault
OracleSeqs(n) ==
  {o \in [1..n -> Oracles] : \A i, j \in 1..n : o[i].fault # "none" /\ o[j].fault # "none" => i = j}

RECURSIVE OrderSeqs(_, _)
\* for every path, an order in which the HashSet of the dependencies declared
\* for it may be iterated
OrderSeqs(paths, decl) ==
  IF paths = <<>> THEN {<<>>}
  ELSE {<<o>> \o rest : o \in Orders(decl[Head(paths)]), rest \in OrderSeqs(Tail(paths), decl)}

\* what the calls of one chunked_import meet, iteration orders included
Meets(paths, decl) ==
  {[i \in 1..Len(paths) |->
      [fault |-> o[i].fault, modified |-> o[i].modified, order |-> ords[i]]] :
     o \in OracleSeqs(Len(paths)), ords \in OrderSeqs(paths, decl)}

\* the file system after a chunked_import
Install(r) ==
  /\ source' = r.st.source
  /\ sidecar' = r.st.sidecar
  /\ artifacts' = r.st.artifacts
  /\ dependents' = r.st.dependents
  /\ nextId' = r.st.nextId
  /\ panicked' = r.st.panicked

\* what full_import does with the ids a chunked_import returned
Continue(r, paths, n) ==
  /\ ~r.st.overflow
  /\ Install(r)
  /\ pending' = r.returned
  /\ pc' = IF r.returned = {} THEN "done" ELSE "loop"
  /\ passes' = n
  /\ last' = [paths |-> paths, results |-> r.results, applied |-> r.applied,
              errors |-> r.errors, returned |-> r.returned]

\* full_import up to the first test of its while loop
FullImport(paths, orcs) ==
  /\ pc = "idle"
  /\ ~panicked
  /\ Continue(ChunkedImport(Fs, paths, declared, orcs), paths, 1)
  /\ input' = paths
  /\ UNCHANGED <<declared, libIds, libPaths, apart>>

\* the pass counter after one more pass: beyond MaxPasses it keeps its parity
NextPass(n) == IF n <= MaxPasses THEN n + 1 ELSE n - 1

\* one iteration of the while loop of full_import
FullImportLoop(ids, orcs) ==
  /\ pc = "loop"
  /\ ~panicked
  /\ LET paths == IdPaths(ids, libPaths)
     IN Continue(ChunkedImport(Fs, paths, declared, orcs), paths, NextPass(passes))
  /\ UNCHANGED <<declared, libIds, libPaths, input, apart>>

-----------------------------------------------------------------------------
(* What happens between two full_import calls *)

\* full_import returns to its caller
Return ==
  /\ pc = "done"
  /\ pc' = "idle"
  /\ pending' = {}
  /\ passes' = 0
  /\ input' = <<>>
  /\ last' = NoLast
  /\ UNCHANGED <<fsVars, declared, libIds, libPaths, apart>>

Idle ==
  /\ pc = "idle"
  /\ ~panicked
  /\ UNCHANGED <<pc, pending, passes, input, last>>

\* the user deletes a sidecar
DeleteSidecar(p) ==
  /\ Idle
  /\ Exists(sidecar[p])
  /\ nextId <= MaxId
  /\ sidecar' = [sidecar EXCEPT ![p] = NoFile]
  /\ UNCHANGED <<source, artifacts, dependents, nextId, panicked, declared, libIds, libPaths, apart>>

\* the user leaves a sidecar that does not decode: its settings are gone
CorruptSidecar(p) ==
  /\ Idle
  /\ TomlFromStr(sidecar[p]).ok
  /\ nextId <= MaxId
  /\ sidecar' = [sidecar EXCEPT ![p] = WithoutSettings(sidecar[p])]
  /\ UNCHANGED <<source, artifacts, dependents, nextId, panicked, declared, libIds, libPaths, apart>>

\* the importer is changed to declare other dependencies for a source
SetDeclared(p, deps) ==
  /\ Idle
  /\ declared[p] # deps
  /\ declared' = [declared EXCEPT ![p] = deps]
  /\ UNCHANGED <<fsVars, libIds, libPaths, apart>>

\* AssetLibrary::insert
LibraryInsert(lib, id, path) ==
  [ids |-> [lib.ids EXCEPT ![path] = id], paths |-> [lib.paths EXCEPT ![id] = path]]

RECURSIVE InsertAll(_, _)
InsertAll(lib, ps) ==
  IF ps = {} THEN lib
  ELSE LET p == CHOOSE x \in ps : TRUE
       IN InsertAll(LibraryInsert(lib, LoadMetadata(sidecar[p]).md.id, p), ps \ {p})

\* the caller enters every source that has a sidecar into the library,
\* under the id of its sidecar
RegisterSources ==
  /\ Idle
  /\ LET lib == InsertAll([ids |-> libIds, paths |-> libPaths],
                         {p \in TxtPaths : LoadMetadata(sidecar[p]).ok})
     IN /\ lib # [ids |-> libIds, paths |-> libPaths]
        /\ libIds' = lib.ids
        /\ libPaths' = lib.paths
  /\ UNCHANGED <<fsVars, declared, apart>>

Next ==
  \/ \E paths \in Inputs : \E orcs \in Meets(paths, declared) : FullImport(paths, orcs)
  \/ \E ids \in Orders(pending) :
       \E orcs \in Meets(IdPaths(ids, libPaths), declared) : FullImportLoop(ids, orcs)
  \/ Return
  \/ \E p \in TxtPaths : DeleteSidecar(p)
  \/ \E p \in TxtPaths : CorruptSidecar(p)
  \/ \E p \in TxtPaths : \E deps \in DepChoices : SetDeclared(p, deps)
  \/ RegisterSources

Spec == Init /\ [][Next]_vars

-----------------------------------------------------------------------------
(* full_import over a cache that holds artifacts *)

\* the ids the sidecars of the two sources hold
CacheIdOf(p) == IF p = "a.txt" THEN 1 ELSE 2

\* the dependency sets of the artifact metas the cache holds
CacheDeps == {{}, {0}}

\* the files .cache/artifacts/<id> may hold: none, or an artifact of the
\* registered importer for that id
CacheFiles(id) ==
  {NoFile} \cup
  {ArtifactIntoBytes(Meta(id, TxtType, 0, 0, d \ {id}), SaverSave(0)) : d \in CacheDeps}

\* the dependencies the importer declares for the two sources
CacheDeclared ==
  {f \in [Paths -> SUBSET AssetIds] :
     /\ f["a.txt"] \in {{}, {0}}
     /\ f["b.txt"] \in {{}, {0}, {0, 1}}
     /\ \A p \in Paths \ TxtPaths : f[p] = {}}

\* the dependents files that are the transpose of the cached artifact metas
Transpose(files) ==
  [d \in AssetIds |->
     LET s == {i \in AssetIds : ArtifactFromBytes(files[i]).some
                                 /\ d \in ArtifactFromBytes(files[i]).meta.dependencies}
     IN IF s = {} THEN NoFile ELSE HashSetIntoBytes(s)]

\* both sources have a sidecar and are in the library; the cache directory
\* holds artifacts under .cache/artifacts/<id>, where load_artifact and
\* load_artifact_meta read them, and the dependents files are their transpose
InitCache ==
  /\ source = [p \in Paths |-> SourceText]
  /\ sidecar = [p \in Paths |->
                  IF p \in TxtPaths
                  THEN TomlToString(Metadata(CacheIdOf(p), DefaultSettings))
                  ELSE NoFile]
  /\ artifacts \in {f \in [AssetIds -> UNION {CacheFiles(i) : i \in AssetIds}] :
                      \A i \in AssetIds : f[i] \in CacheFiles(i)}
  /\ dependents = Transpose(artifacts)
  /\ nextId = 3
  /\ panicked = FALSE
  /\ declared \in CacheDeclared
  /\ libIds = [p \in Paths |-> IF p \in TxtPaths THEN CacheIdOf(p) ELSE NoId]
  /\ libPaths = [i \in AssetIds |->
                   IF \E p \in TxtPaths : CacheIdOf(p) = i
                   THEN CHOOSE p \in TxtPaths : CacheIdOf(p) = i
                   ELSE NoPath]
  /\ pc = "idle"
  /\ pending = {}
  /\ passes = 0
  /\ input = <<>>
  /\ last = NoLast
  /\ processer = TRUE
  /\ Apart

\* the path lists full_import is called with: those of Inputs, or a source
\* next to a path without a registered importer
CacheInputs ==
  Inputs \cup {<<"x.unknown", p>> : p \in TxtPaths} \cup {<<p, "noext">> : p \in TxtPaths}

NextCache ==
  \/ \E paths \in CacheInputs : \E orcs \in Meets(paths, declared) : FullImport(paths, orcs)
  \/ \E ids \in Orders(pending) :
       \E orcs \in Meets(IdPaths(ids, libPaths), declared) : FullImportLoop(ids, orcs)

SpecCache == InitCache /\ [][NextCache]_vars

-----------------------------------------------------------------------------
(* full_import over a cache that holds damaged and foreign artifacts *)

\* AssetType::from::<A>() of an asset type no registered importer produces
OtherType == 8

\* an artifact of DefaultMeta's dependencies for an id, of an asset type
WholeFile(id, ty) == ArtifactIntoBytes(Meta(id, ty, 0, 0, {}), SaverSave(0))

\* a file whose 8-byte length prefix is zero
ZeroHeader(file) == <<0>> \o Tail(file)

\* the files .cache/artifacts/<id> may hold: none, an artifact of the
\* registered importer, one whose header was zeroed, one of a type without
\* importer
MixedFiles(id) ==
  {NoFile, WholeFile(id, TxtType), ZeroHeader(WholeFile(id, TxtType)), WholeFile(id, OtherType)}

\* both sources have a sidecar and each declares two dependencies; the
\* importer has a processor or has none; the library is empty
InitMixed ==
  /\ source = [p \in Paths |-> SourceText]
  /\ sidecar = [p \in Paths |->
                  IF p \in TxtPaths
                  THEN TomlToString(Metadata(CacheIdOf(p), DefaultSettings))
                  ELSE NoFile]
  /\ artifacts \in {f \in [AssetIds -> UNION {MixedFiles(i) : i \in AssetIds}] :
                      \A i \in AssetIds : f[i] \in MixedFiles(i)}
  /\ dependents = [i \in AssetIds |-> NoFile]
  /\ nextId = 3
  /\ panicked = FALSE
  /\ declared = [p \in Paths |->
                   IF p \in TxtPaths THEN {0, 1, 2} \ {CacheIdOf(p)} ELSE {}]
  /\ libIds = [p \in Paths |-> NoId]
  /\ libPaths = [i \in AssetIds |-> NoPath]
  /\ pc = "idle"
  /\ pending = {}
  /\ passes = 0
  /\ input = <<>>
  /\ last = NoLast
  /\ processer \in BOOLEAN
  /\ Apart

SpecMixed == InitMixed /\ [][NextCache]_vars

-----------------------------------------------------------------------------
(* full_import over a cache whose artifacts were damaged after they were stored *)

\* a file that ends inside its meta
CutShort(file) == SubSeq(file, 1, Len(file) - 2)

\* what may be left of a stored artifact: the file, the file with a zeroed
\* length prefix, the file cut short
Damaged(file) ==
  IF Exists(file) THEN {file, ZeroHeader(file), CutShort(file)} ELSE {NoFile}

\* the artifacts of the two sources were stored as in InitCache, with the
\* dependents files that are their transpose, and then damaged or left whole
InitDamaged ==
  /\ source = [p \in Paths |-> SourceText]
  /\ sidecar = [p \in Paths |->
                  IF p \in TxtPaths
                  THEN TomlToString(Metadata(CacheIdOf(p), DefaultSettings))
                  ELSE NoFile]
  /\ \E stored \in {f \in [AssetIds -> UNION {CacheFiles(i) : i \in AssetIds}] :
                       /\ \A i \in AssetIds : f[i] \in CacheFiles(i)
                       /\ f[DefaultId] = NoFile} :
       /\ artifacts \in {f \in [AssetIds -> UNION {Damaged(stored[i]) : i \in AssetIds}] :
                           \A i \in AssetIds : f[i] \in Damaged(stored[i])}
       /\ dependents = Transpose(stored)
  /\ nextId = 3
  /\ panicked = FALSE
  /\ declared \in CacheDeclared
  /\ libIds = [p \in Paths |-> IF p \in TxtPaths THEN CacheIdOf(p) ELSE NoId]
  /\ libPaths = [i \in AssetIds |->
                   IF \E p \in TxtPaths : CacheIdOf(p) = i
                   THEN CHOOSE p \in TxtPaths : CacheIdOf(p) = i
                   ELSE NoPath]
  /\ pc = "idle"
  /\ pending = {}
  /\ passes = 0
  /\ input = <<>>
  /\ last = NoLast
  /\ processer = TRUE
  /\ Apart

SpecDamaged == InitDamaged /\ [][NextCache]_vars

-----------------------------------------------------------------------------
(* Calls of the byte codec and of chunked_import on their own *)

\* the variables of the import pipeline
pipeline == <<source, sidecar, artifacts, dependents, nextId, panicked, declared,
              libIds, libPaths, pc, pending, passes, input, last>>

\* a call and what it returned
Call(op, arg, bytes, out) == [op |-> op, arg |-> arg, bytes |-> bytes, out |-> out]

\* the u64 values behind the AssetIds the codec is called on: each has two
\* non-zero bytes
ItemValues == {257 * i : i \in 0..MaxItem}

\* the sets the codec is called on, in every order a HashSet may iterate them
ItemOrders == UNION {Orders(S) : S \in SUBSET ItemValues}

\* into_bytes of a set iterated in some order, then from_bytes of the bytes
RoundTrip(items) ==
  /\ calc = NoCalc
  /\ calc' = Call("round", items, SetIntoBytes(items), SetFromBytes(SetIntoBytes(items)))
  /\ UNCHANGED <<pipeline, processer, registry, pool, scoped, dense>>

\* every prefix of an encoding
Cuts(e) == {SubSeq(e, 1, k) : k \in 0..Len(e)}

\* an encoding of a set whose first item length was changed
Relengthed(e) ==
  IF Len(e) > WordLen
  THEN {[e EXCEPT ![WordLen + 1] = n] : n \in {WordLen - 1, WordLen + 1}}
  ELSE {}

\* the byte strings HashSet<AssetId>::from_bytes is called on
SetDecodeInputs ==
  UNION {Cuts(SetIntoBytes(o)) \cup Relengthed(SetIntoBytes(o)) :
           o \in {x \in ItemOrders : Len(x) <= MaxDecoded}}

\* the byte strings u64::from_bytes and usize::from_bytes are called on
U64DecodeInputs ==
  UNION {Cuts(U64IntoBytes(v)) \cup {U64IntoBytes(v) \o <<0>>} : v \in ItemValues}

\* HashSet<AssetId>::from_bytes on a byte string
DecodeSet(bytes) ==
  /\ calc = NoCalc
  /\ calc' = Call("decode_set", {}, bytes, SetFromBytes(bytes))
  /\ UNCHANGED <<pipeline, processer, registry, pool, scoped, dense>>

\* u64::from_bytes or usize::from_bytes on a byte string
DecodeU64(bytes) ==
  /\ calc = NoCalc
  /\ calc' = Call("decode_u64", {}, bytes, U64FromBytes(bytes))
  /\ UNCHANGED <<pipeline, processer, registry, pool, scoped, dense>>

\* the project chunked_import is called on: id 0 has an artifact in the
\* cache, b.txt (id 2) was imported with the dependency 0, a.txt (id 1) never
ChunkFs ==
  LET files == [i \in AssetIds |->
                  CASE i = 0 -> WholeFile(0, TxtType)
                    [] i = 2 -> ArtifactIntoBytes(Meta(2, TxtType, 0, 0, {0}), SaverSave(0))
                    [] OTHER -> NoFile]
  IN [source |-> [p \in Paths |-> SourceText],
      sidecar |-> [p \in Paths |->
                     IF p \in TxtPaths
                     THEN TomlToString(Metadata(CacheIdOf(p), DefaultSettings))
                     ELSE NoFile],
      artifacts |-> files, dependents |-> Transpose(files), nextId |-> 3,
      overflow |-> FALSE, panicked |-> FALSE, store |-> {}, processer |-> TRUE]

\* both sources declare the dependency 0
ChunkDeclared == [p \in Paths |-> IF p \in TxtPaths THEN {0} ELSE {}]

\* the lengths of the path lists: a number of full chunks, one path less
\* and one path more
ChunkLens == {n \in {ChunkSize * c + d : c \in 0..MaxChunks, d \in {-1, 0, 1}} : n >= 0}

\* a list of n paths: a.txt up to the k-th, b.txt after it
PathList(n, k) == [i \in 1..n |-> IF i <= k THEN "a.txt" ELSE "b.txt"]

\* chunked_import on a list of paths, no import meeting a failure
ChunkedCall(paths) ==
  /\ calc = NoCalc
  /\ calc' = Call("chunked", paths, <<>>,
                  ChunkedImport(ChunkFs, paths, ChunkDeclared,
                                [i \in 1..Len(paths) |->
                                   [fault |-> "none", modified |-> 0, order |-> <<0>>]]))
  /\ UNCHANGED <<pipeline, processer, registry, pool, scoped, dense>>

NextCalls ==
  \/ \E items \in ItemOrders : RoundTrip(items)
  \/ \E bytes \in SetDecodeInputs : DecodeSet(bytes)
  \/ \E bytes \in U64DecodeInputs : DecodeU64(bytes)
  \/ \E n \in ChunkLens : \E k \in {0, ChunkSize, n} : ChunkedCall(PathList(n, k))

SpecCalls == Init /\ [][NextCalls]_vars

-----------------------------------------------------------------------------
(* Register calls on an AssetImporters *)

\* a program registers one more importer
RegisterCall(I) ==
  /\ Len(registry.calls) < MaxRegistered
  /\ registry' = Register(registry, I)
  /\ UNCHANGED <<pipeline, processer, calc, pool, scoped, dense>>

NextRegistry == \E I \in ImporterImpls : RegisterCall(I)

SpecRegistry == Init /\ [][NextRegistry]_vars

-----------------------------------------------------------------------------
(* A TaskPool, its owner and its workers *)

InitPool ==
  /\ source = [p \in Paths |-> SourceText]
  /\ sidecar = [p \in Paths |-> NoFile]
  /\ artifacts = [i \in AssetIds |-> NoFile]
  /\ dependents = [i \in AssetIds |-> NoFile]
  /\ nextId = 1
  /\ panicked = FALSE
  /\ declared = [p \in Paths |-> {}]
  /\ libIds = [p \in Paths |-> NoId]
  /\ libPaths = [i \in AssetIds |-> NoPath]
  /\ pc = "idle"
  /\ pending = {}
  /\ passes = 0
  /\ input = <<>>
  /\ last = NoLast
  /\ processer = TRUE
  /\ calc = NoCalc
  /\ registry = AssetImportersNew
  /\ pool \in {TaskPoolNew(size) : size \in 0..MaxSize}
  /\ scoped = NoScoped
  /\ dense = NoDense

\* TaskPool::spawn up to its call of run_one: the task is pushed under the
\* lock; the tasks are numbered in the order they are passed to spawn
Spawn ==
  /\ pool.owner = "idle"
  /\ pool.spawned < MaxTasks
  /\ pool' = [pool EXCEPT !.queue = Append(@, pool.spawned + 1),
                          !.spawned = @ + 1,
                          !.owner = "run_one"]
  /\ UNCHANGED <<pipeline, processer, calc, registry, scoped, dense>>

\* the run_one call of spawn
SpawnRunOne ==
  /\ pool.owner = "run_one"
  /\ pool' = [RunOne(pool) EXCEPT !.owner = "idle"]
  /\ UNCHANGED <<pipeline, processer, calc, registry, scoped, dense>>

\* task() of a worker returns
Complete(k) ==
  /\ pool.threads[k].at = "task"
  /\ pool' = [pool EXCEPT !.threads[k].at = "remove"]
  /\ UNCHANGED <<pipeline, processer, calc, registry, scoped, dense>>

\* a worker removes itself from the running table
WorkerRemove(k) ==
  /\ pool.threads[k].at = "remove"
  /\ pool' = Remove(pool, k)
  /\ UNCHANGED <<pipeline, processer, calc, registry, scoped, dense>>

\* the run_one call of a worker, after which its thread ends
WorkerRunOne(k) ==
  /\ pool.threads[k].at = "run_one"
  /\ pool' = [RunOne(pool) EXCEPT !.threads[k].at = "exited"]
  /\ UNCHANGED <<pipeline, processer, calc, registry, scoped, dense>>

\* drop takes the running table under the lock
DropTake ==
  /\ pool.owner = "idle"
  /\ pool' = [pool EXCEPT !.joining = pool.running,
                          !.running = {},
                          !.owner = IF pool.running = {} THEN "dropped" ELSE "join"]
  /\ UNCHANGED <<pipeline, processer, calc, registry, scoped, dense>>

\* drop has joined every handle it took and takes the running table again
DropJoined ==
  /\ pool.owner = "join"
  /\ \A k \in pool.joining : pool.threads[k].at = "exited"
  /\ pool' = [pool EXCEPT !.joining = pool.running,
                          !.running = {},
                          !.owner = IF pool.running = {} THEN "dropped" ELSE "join"]
  /\ UNCHANGED <<pipeline, processer, calc, registry, scoped, dense>>

\* a step of the worker thread k
Worker(k) == Complete(k) \/ WorkerRemove(k) \/ WorkerRunOne(k)

NextPool ==
  \/ Spawn
  \/ SpawnRunOne
  \/ \E k \in DOMAIN pool.threads : Complete(k)
  \/ \E k \in DOMAIN pool.threads : WorkerRemove(k)
  \/ \E k \in DOMAIN pool.threads : WorkerRunOne(k)

\* spawn calls and worker steps in any interleaving, the pool is not dropped
SpecPool == InitPool /\ [][NextPool]_vars

NextTeardown ==
  \/ NextPool
  \/ DropTake
  \/ DropJoined

\* the owner may drop the pool between two spawn calls
SpecTeardown == InitPool /\ [][NextTeardown]_vars

\* every thread that can take a step eventually takes one: the workers, and
\* the owner inside spawn
SpecPoolFair ==
  /\ SpecPool
  /\ WF_vars(SpawnRunOne)
  /\ \A k \in 1..MaxTasks : WF_vars(k \in DOMAIN pool.threads /\ Worker(k))

\* a ScopedTaskPool of each size, alone
InitScoped ==
  /\ source = [p \in Paths |-> SourceText]
  /\ sidecar = [p \in Paths |-> NoFile]
  /\ artifacts = [i \in AssetIds |-> NoFile]
  /\ dependents = [i \in AssetIds |-> NoFile]
  /\ nextId = 1
  /\ panicked = FALSE
  /\ declared = [p \in Paths |-> {}]
  /\ libIds = [p \in Paths |-> NoId]
  /\ libPaths = [i \in AssetIds |-> NoPath]
  /\ pc = "idle"
  /\ pending = {}
  /\ passes = 0
  /\ input = <<>>
  /\ last = NoLast
  /\ processer = TRUE
  /\ calc = NoCalc
  /\ registry = AssetImportersNew
  /\ pool = NoPool
  /\ scoped \in {ScopedTaskPoolNew(size) : size \in 0..MaxSize}
  /\ dense = NoDense

\* ScopedTaskPool::spawn, which takes the pool by &mut: between two runs only
ScopedSpawn ==
  /\ scoped.at \in {"idle", "returned"}
  /\ scoped.spawned < MaxScoped
  /\ scoped' = ScopedPush(scoped)
  /\ UNCHANGED <<pipeline, processer, calc, registry, pool, dense>>

\* ScopedTaskPool::run is called
Run ==
  /\ scoped.at \in {"idle", "returned"}
  /\ scoped' = [scoped EXCEPT !.at = "loop"]
  /\ UNCHANGED <<pipeline, processer, calc, registry, pool, dense>>

\* the while of run finds the queue empty and run returns
RunReturn ==
  /\ scoped.at = "loop"
  /\ scoped.queue = <<>>
  /\ scoped' = [scoped EXCEPT !.at = "returned"]
  /\ UNCHANGED <<pipeline, processer, calc, registry, pool, dense>>

\* the while of run finds the queue not empty and enters a scope
RunDrain ==
  /\ scoped.at = "loop"
  /\ scoped.queue # <<>>
  /\ scoped' = Drain(scoped)
  /\ UNCHANGED <<pipeline, processer, calc, registry, pool, dense>>

\* task() of a scoped thread returns
ScopedComplete(k) ==
  /\ scoped.threads[k].at = "task"
  /\ scoped' = [scoped EXCEPT !.threads[k].at = "done"]
  /\ UNCHANGED <<pipeline, processer, calc, registry, pool, dense>>

\* as ScopeEnd, were the scope left while its threads still run
ScopeEndEarly ==
  /\ scoped.at = "scope"
  /\ scoped' = [scoped EXCEPT !.at = "loop"]
  /\ UNCHANGED <<pipeline, processer, calc, registry, pool, dense>>

\* thread::scope returns once every thread started in it has ended
ScopeEnd ==
  /\ scoped.at = "scope"
  /\ \A k \in DOMAIN scoped.threads : scoped.threads[k].at = "done"
  /\ scoped' = [scoped EXCEPT !.at = "loop"]
  /\ UNCHANGED <<pipeline, processer, calc, registry, pool, dense>>

NextScoped ==
  \/ ScopedSpawn
  \/ Run
  \/ RunReturn
  \/ RunDrain
  \/ \E k \in DOMAIN scoped.threads : ScopedComplete(k)
  \/ ScopeEnd

SpecScoped == InitScoped /\ [][NextScoped]_vars

\* the thread inside run and the scoped threads keep taking steps
SpecScopedFair ==
  /\ SpecScoped
  /\ WF_vars(RunReturn \/ RunDrain \/ ScopeEnd)
  /\ \A k \in 1..MaxScoped : WF_vars(k \in DOMAIN scoped.threads /\ ScopedComplete(k))

\* the keys and the values a DenseMap is called with
DenseKeys == {"a", "b"}
DenseValues == {"x", "y"}

\* a new DenseMap, alone; latest is the value most recently inserted under
\* each key and not removed since, "" standing for none
InitDense ==
  /\ source = [p \in Paths |-> SourceText]
  /\ sidecar = [p \in Paths |-> NoFile]
  /\ artifacts = [i \in AssetIds |-> NoFile]
  /\ dependents = [i \in AssetIds |-> NoFile]
  /\ nextId = 1
  /\ panicked = FALSE
  /\ declared = [p \in Paths |-> {}]
  /\ libIds = [p \in Paths |-> NoId]
  /\ libPaths = [i \in AssetIds |-> NoPath]
  /\ pc = "idle"
  /\ pending = {}
  /\ passes = 0
  /\ input = <<>>
  /\ last = NoLast
  /\ processer = TRUE
  /\ calc = NoCalc
  /\ registry = AssetImportersNew
  /\ pool = NoPool
  /\ scoped = NoScoped
  /\ dense = [map |-> DenseMapNew(DenseKeys), aborted |-> FALSE,
              latest |-> [k \in DenseKeys |-> ""]]

\* a call returned or panicked; after a panic the map is called no more
DenseCall(out, latest) ==
  /\ dense' = [map |-> out.m, aborted |-> out.aborted,
               latest |-> IF out.aborted THEN dense.latest ELSE latest]
  /\ UNCHANGED <<pipeline, processer, calc, registry, pool, scoped>>

DenseInsert(key, value) ==
  /\ ~dense.aborted
  /\ Len(dense.map.values) < MaxEntries
  /\ DenseCall(Returns(DenseMapInsert(dense.map, key, value)),
               [dense.latest EXCEPT ![key] = value])

DenseRemove(key) ==
  /\ ~dense.aborted
  /\ DenseCall(DenseMapRemove(dense.map, key), [dense.latest EXCEPT ![key] = ""])

DenseSwapRemove(key) ==
  /\ ~dense.aborted
  /\ DenseCall(DenseMapSwapRemove(dense.map, key), [dense.latest EXCEPT ![key] = ""])

DenseRetain(keep) ==
  /\ ~dense.aborted
  /\ DenseCall(DenseMapRetain(dense.map, keep),
               [k \in DenseKeys |-> IF k \in keep THEN dense.latest[k] ELSE ""])

NextDense ==
  \/ \E key \in DenseKeys : \E value \in DenseValues : DenseInsert(key, value)
  \/ \E key \in DenseKeys : DenseRemove(key)
  \/ \E key \in DenseKeys : DenseSwapRemove(key)
  \/ \E keep \in SUBSET DenseKeys : DenseRetain(keep)

SpecDense == InitDense /\ [][NextDense]_vars

\* a pass of the while loop, as the program counter and the pass counter
\* show it: every step a full_import inside its loop takes is such a pass
LoopPass ==
  /\ pc = "loop"
  /\ pc' \in {"loop", "done"}
  /\ passes' = NextPass(passes)

\* the thread that runs full_import keeps running: inside the loop it takes
\* the next pass
SpecFair == Spec /\ WF_<<pc, passes>>(LoopPass)

-----------------------------------------------------------------------------
(* The dependency graph as the files hold it *)

\* the decoded contents of .temp/dependents/<id>, an absent file being the
\* empty set
DependentsOf(id) ==
  IF Exists(dependents[id]) THEN HashSetFromBytes(dependents[id]).val ELSE {}

\* the dependencies of the current artifact meta of an id
DependenciesOf(id) ==
  LET m == StoredMeta(Fs, id) IN IF m.some THEN m.meta.dependencies ELSE {}

\* the results of the last chunk
LastResults == {last.results[i] : i \in DOMAIN last.results}
LastSaved == Saved(last.results)

\* a step that is a chunked_import of full_import
ImportStep == pc' # "idle"

-----------------------------------------------------------------------------
(* Reverse index *)

\* C1: after every completed full_import, for all ids A and B, B is in the
\* dependencies of A's current artifact meta exactly if A is in the decoded
\* dependents file of B.
C1_TransposeLaw ==
  pc = "done" =>
    \A A, B \in AssetIds : (B \in DependenciesOf(A)) <=> (A \in DependentsOf(B))

\* C5: after a batch that saved X with a meta declaring Y, the dependents
\* file of Y exists and decodes to a set containing X, and with no file
\* before the batch it decodes to exactly the ids the batch added.
C5_AddEdge ==
  \A r \in LastSaved : \A Y \in r.meta.dependencies :
    /\ Exists(dependents[Y])
    /\ r.id \in DependentsOf(Y)
    /\ Added(last.results, Y) \subseteq DependentsOf(Y)

\* C6: when the re-import of X drops a dependency its previously saved meta
\* had, save returns removed = prev.dependencies \ new.dependencies, and after
\* the batch X is not among the dependents of what it dropped.
C6_RemoveEdge ==
  \A r \in LastSaved :
    r.before.some =>
      /\ r.removed = RemovedDependencies(r.before.meta, r.meta)
      /\ \A Y \in r.removed : r.id \notin DependentsOf(Y)

\* C7: after every completed batch the dependents file of B exists exactly
\* if some current artifact meta depends on B, and an existing file never
\* decodes to the empty set.
C7_FileIffDependents ==
  \A B \in AssetIds :
    /\ Exists(dependents[B]) <=> {A \in AssetIds : B \in DependenciesOf(A)} # {}
    /\ Exists(dependents[B]) => DependentsOf(B) # {}

-----------------------------------------------------------------------------
(* Fixed point *)

\* C2: full_import terminates: a full_import inside its while loop comes to
\* return.
C2_Terminates == (pc = "loop") ~> (pc = "done")

\* C3: when every asset a chunk saved declares exactly the dependency set of
\* its previously saved artifact meta, import_assets returns the empty set.
C3_NoNewEdgesReturnsEmpty ==
  (/\ LastSaved # {}
   /\ \A r \in LastSaved :
        r.before.some /\ r.before.meta.dependencies = r.meta.dependencies)
  => last.returned = {}

\* the first chunk of the current full_import saved something
FirstPassSaved == passes > 1 \/ LastSaved # {}

\* C4: when b was saved with a dependency on a, both are in the library and
\* full_import is run on a's path alone, the loop ends after exactly two
\* passes and the second pass imports b.
C4_Propagation ==
  \A a, b \in TxtPaths :
    LET ida == TomlFromStr(sidecar[a]).md.id
        idb == TomlFromStr(sidecar[b]).md.id
    IN (/\ pc = "done"
        /\ input = <<a>>
        /\ a # b
        /\ TomlFromStr(sidecar[a]).ok /\ TomlFromStr(sidecar[b]).ok
        /\ libPaths[ida] = a /\ libPaths[idb] = b
        /\ ida \in DependenciesOf(idb)
        /\ FirstPassSaved)
       => /\ passes = 2
          /\ \E i \in DOMAIN last.paths : last.paths[i] = b

-----------------------------------------------------------------------------
(* Artifact location *)

\* C8: right after a successful save of X, load_artifact_meta(X) returns the
\* meta just saved, and the previous meta save read is the meta the preceding
\* import of the source saved.
C8_ArtifactAtCacheLocation ==
  \A r \in LastSaved :
    /\ LoadArtifactMeta(Fs, r.id) = Some(r.meta)
    /\ r.before.some => r.prev = r.before

-----------------------------------------------------------------------------
(* Sidecar and id *)

\* C9, as stated: while the sidecar of a source exists, no import changes the
\* id the sidecar holds, and every artifact meta saved for the source carries
\* that id.
C9_IdStableWhileSidecarExists ==
  [][ImportStep =>
       \A p \in Paths :
         Exists(sidecar[p]) =>
           /\ SidecarId(sidecar'[p]) = SidecarId(sidecar[p])
           /\ \A r \in Saved(last'.results) :
                r.path = p => r.meta.id = SidecarId(sidecar[p])]_vars

\* C9, amended: while the sidecar of a source exists and decodes, no import
\* changes the id the sidecar holds, and every artifact meta saved for the
\* source carries that id.
C9_IdStableWhileSidecarDecodes ==
  [][ImportStep =>
       \A p \in Paths :
         TomlFromStr(sidecar[p]).ok =>
           /\ TomlFromStr(sidecar'[p]).ok
           /\ TomlFromStr(sidecar'[p]).md.id = TomlFromStr(sidecar[p]).md.id
           /\ \A r \in Saved(last'.results) :
                r.path = p => r.meta.id = TomlFromStr(sidecar[p]).md.id]_vars

\* a source saved before under the id of its sidecar has been imported and
\* saved again
C9_Reimported ==
  \E r \in LastSaved :
    /\ r.hadSidecar
    /\ r.before.some
    /\ r.before.meta.id = r.id
    /\ TomlFromStr(sidecar[r.path]).md.id = r.id

\* C10: when the sidecar of a source is missing or does not decode, an import
\* that reaches the importer of the source leaves a sidecar that decodes, with
\* default settings and an id never handed out before, whatever the import
\* comes to afterwards; ids already in sidecars were handed out before, so the
\* id differs from the one a deleted sidecar held.
C10_LoadOrDefault ==
  [][ImportStep =>
       /\ nextId' >= nextId
       /\ \A p \in Paths : Exists(sidecar[p]) => SidecarId(sidecar[p]) \in 1..(nextId - 1)
       /\ \A i \in DOMAIN last'.results :
            LET r == last'.results[i]
                after == TomlFromStr(sidecar'[r.path])
            IN (r.stage # "dispatch" /\ ~TomlFromStr(sidecar[r.path]).ok) =>
                 /\ after.ok
                 /\ after.md.settings = DefaultSettings
                 /\ after.md.id = r.id
                 /\ after.md.id >= nextId
                 /\ after.md.id < nextId'
                 /\ after.md.id # SidecarId(sidecar[r.path])]_vars

\* a source saved before under one id lost its sidecar and was imported
\* again: the importer failed, and the sidecar is there with another id
C10_RegeneratedThoughImportFailed ==
  \E r \in LastResults :
    /\ ~r.hadSidecar
    /\ r.stage \in {"read", "importer"}
    /\ ArtifactFromBytes(source[r.path]).some
    /\ ArtifactFromBytes(source[r.path]).meta.id # r.id
    /\ TomlFromStr(sidecar[r.path]).ok
    /\ TomlFromStr(sidecar[r.path]).md.id = r.id

-----------------------------------------------------------------------------
(* Library *)

\* C11: after every completed batch, the id of every source the batch saved
\* is in the AssetLibrary mapped to the path of the source, in both maps, and
\* is the id of its artifact meta.
C11_ImportedInLibrary ==
  \A r \in LastSaved :
    /\ libPaths[r.id] = r.path
    /\ libIds[r.path] = r.id
    /\ r.meta.id = r.id

\* C12: the AssetLibrary is a bijection after any sequence of insert calls:
\* path_id(p) = id exactly if id_path(id) = p.
C12_LibraryBijection ==
  \A p \in Paths : \A id \in AssetIds : (libIds[p] = id) <=> (libPaths[id] = p)

-----------------------------------------------------------------------------
(* Process step *)

\* the results of the last chunk whose import reached the process step
LastProcessed == {r \in LastResults : r.stage \in {"process", "save", "saved"}}

\* C13: inside process for an asset, a lookup of an id through the process
\* context answers with an asset exactly if the id was declared during the
\* import and the cache held a loadable artifact of a registered importer for
\* it when the step began, whatever the AssetStore of the batch already held.
C13_ProcessorVisibility ==
  \A r \in LastProcessed :
    r.proc.visible = {d \in r.proc.declared : d \in r.proc.loadable}

\* C14: the dependency set of the saved artifact meta, in the SavedAsset and
\* in the artifact bytes written, is exactly the set the importer declared
\* during import; the process step in between leaves it unchanged.
C14_DependenciesFixedAtImport ==
  \A r \in LastSaved :
    /\ r.proc.declared = declared[r.path]
    /\ r.meta.dependencies = declared[r.path]
    /\ ArtifactFromBytes(source[r.path]).some
    /\ ArtifactFromBytes(source[r.path]).meta.dependencies = declared[r.path]

\* an asset went through a process step that could look up a dependency,
\* and was saved with two dependencies
C14_SavedWithDependency ==
  \E r \in LastSaved :
    /\ processer
    /\ Cardinality(r.meta.dependencies) = 2
    /\ r.proc.visible # {}
    /\ r.proc.declared = r.meta.dependencies

-----------------------------------------------------------------------------
(* Failures *)

\* the ids of the results of the last chunk that were saved
LastSavedIds == {r.id : r \in LastSaved}

\* C15: when the import of one path of a chunk fails, every other path of the
\* chunk that has a registered importer and meets no failure of its own is
\* imported and saved, the failed path adds its id to no added or removed set
\* of a dependents update, to the returned set and to no dependents file, and
\* takes it out of none, and the batch returns.
C15_FailureIsolation ==
  [][ImportStep =>
       \A i \in DOMAIN last'.results :
         LET r == last'.results[i]
         IN ~r.ok =>
              /\ DOMAIN last'.results = DOMAIN last'.paths
              /\ \A j \in DOMAIN last'.results \ {i} :
                   LET o == last'.results[j]
                   IN (Ext(o.path) \in RegisteredExts /\ o.met = "none") =>
                        /\ o.ok
                        /\ ArtifactFromBytes(source'[o.path]).some
                        /\ ArtifactFromBytes(source'[o.path]).meta.id = o.id
              /\ r.id \notin {o.id : o \in Saved(last'.results)} =>
                   /\ r.id \notin last'.returned
                   /\ \A d \in AssetIds :
                        /\ r.id \notin Added(last'.results, d) \cup Removed(last'.results, d)
                        /\ r.id \in DependentsOf(d)' <=> r.id \in DependentsOf(d)
              /\ pc' \in {"loop", "done"}
              /\ ~panicked']_vars

\* a chunk of two sources: the import of the first failed after its sidecar
\* was read, the second was saved with a dependency and is in the dependents
\* file of what it depends on, next to the first
C15_OneFailedOtherSaved ==
  /\ Len(last.results) = 2
  /\ last.results[1].stage \in {"read", "importer", "process", "save"}
  /\ last.results[2].ok
  /\ last.results[2].meta.dependencies # {}
  /\ last.results[1].id \notin last.returned
  /\ last.results[2].id \in last.returned
  /\ \E d \in last.results[2].meta.dependencies :
       {last.results[1].id, last.results[2].id} \subseteq DependentsOf(d)

\* C16: after full_import returns, for every path whose import failed there
\* is an error record of that path the caller can inspect.
C16_FailuresRecorded ==
  pc = "done" =>
    \A r \in LastResults : ~r.ok => \E e \in last.errors : e.path = r.path

\* C17: a full_import on paths without an extension or without a registered
\* importer writes no file (no sidecar, no artifact, no dependents file),
\* hands out no id, and ends after one pass.
C17_DispatchFailureNoEffect ==
  [][(/\ pc = "idle"
      /\ pc' # "idle"
      /\ \A i \in DOMAIN input' : Ext(input'[i]) \notin RegisteredExts)
     => /\ fsVars' = fsVars
        /\ pc' = "done"
        /\ passes' = 1
        /\ last'.returned = {}]_vars

\* a full_import of a path without a registered importer returned, with the
\* sidecar and the artifact of an earlier import of a source still there
C17_UnknownExtensionImported ==
  /\ pc = "done"
  /\ input = <<"x.unknown">>
  /\ last.results[1].stage = "dispatch"
  /\ ~Exists(sidecar["x.unknown"])
  /\ source["x.unknown"] = SourceText
  /\ \E p \in TxtPaths : Exists(sidecar[p]) /\ ArtifactFromBytes(source[p]).some

-----------------------------------------------------------------------------
(* What the fixed point advances on *)

\* C18: an id is in the set import_assets returns only if an
\* update_dependents call that carried it in added completed successfully.
C18_ReturnedOnlyApplied ==
  \A id \in last.returned :
    \E d \in last.applied : id \in Added(last.results, d)

\* C19: the set import_assets returns is exactly the union of the added sets
\* of the dependents updates of the chunk; an asset saved with an empty
\* dependency set is not in it, and the next pass of full_import imports only
\* paths of returned ids.
C19_OnlyAddedPropagates ==
  [][ImportStep =>
       /\ last'.returned = UNION {Added(last'.results, d) : d \in AssetIds}
       /\ \A r \in Saved(last'.results) :
            r.meta.dependencies = {} => r.id \notin last'.returned
       /\ pending' = last'.returned
       /\ pc = "loop" =>
            \A i \in DOMAIN last'.paths :
              \E id \in last.returned : libPaths[id] = last'.paths[i]]_vars

\* the import of an asset only removed edges: its previous artifact meta had
\* a dependency, its new one has none, and full_import returned without
\* importing it again
C19_OnlyRemoved ==
  /\ pc = "done"
  /\ passes = 1
  /\ \E r \in LastSaved :
       /\ r.prev.some
       /\ r.removed # {}
       /\ r.meta.dependencies = {}
       /\ r.id \notin last.returned

-----------------------------------------------------------------------------
(* Failed artifact write *)

\* C20: when the write of the artifact fails in save, the artifact stored
\* for the id stays as it was, the ImportError carries the artifact meta that
\* was stored before (none when there was none), and no dependents update is
\* made on behalf of the asset.
C20_FailedWriteKeepsPrevious ==
  \A r \in LastResults :
    r.stage = "save" =>
      /\ StoredMeta(Fs, r.id) = r.before
      /\ r.prev = r.before
      /\ r.id \notin LastSavedIds =>
           \A d \in AssetIds :
             r.id \notin Added(last.results, d) \cup Removed(last.results, d)

-----------------------------------------------------------------------------
(* Stages of an import *)

\* C21: the save step is the only step that writes an artifact: a chunk
\* leaves the file at every path none of its imports saved, and the file of
\* every id none of its imports saved, byte for byte as they were, whatever
\* stage the imports of that path failed at.
C21_OnlySaveWrites ==
  [][ImportStep =>
       /\ \A p \in Paths :
            (\A i \in DOMAIN last'.results :
               last'.results[i].path = p => ~last'.results[i].ok)
            => source'[p] = source[p]
       /\ \A id \in AssetIds :
            (\A i \in DOMAIN last'.results :
               last'.results[i].id = id => ~last'.results[i].ok)
            => artifacts'[id] = artifacts[id]]_vars

\* the import of a source failed in its processor, and the artifact an
\* earlier import saved for it is still what its file holds
C21_FailedAfterSaved ==
  \E r \in LastResults :
    /\ r.stage = "process"
    /\ r.before.some
    /\ ArtifactFromBytes(source[r.path]) = r.before

\* C22: an import enters its stages in the order sidecar, import, then with
\* a processor attached load of the dependencies and process, then save; the
\* processor is never called when none is attached; and an import that meets
\* no failure of its own is processed and saved, whether or not the artifacts
\* of its dependencies are missing, undecodable or of a type without importer.
C22_StageOrder ==
  \A r \in LastResults :
    LET all == IF processer THEN Processed \o <<"save">> ELSE Imported \o <<"save">>
    IN /\ Len(r.steps) <= Len(all)
       /\ r.steps = SubSeq(all, 1, Len(r.steps))
       /\ (\E i \in DOMAIN r.steps : r.steps[i] = "process") => processer
       /\ r.stage = "dispatch" <=> r.steps = <<>>
       /\ (r.stage # "dispatch" /\ r.met = "none") => r.ok /\ r.steps = all

\* imports with a processor were saved though a dependency of one had no
\* artifact, a dependency of one had an undecodable artifact and a
\* dependency of one had an artifact of a type without importer
C22_SavedOverUnloadable ==
  /\ processer
  /\ \E r \in LastSaved : \E d \in r.proc.declared : ~Exists(artifacts[d])
  /\ \E r \in LastSaved : \E d \in r.proc.declared :
       Exists(artifacts[d]) /\ ~LoadArtifact(Fs, d).some
  /\ \E r \in LastSaved : \E d \in r.proc.declared :
       LoadArtifact(Fs, d).some /\ ~Importer(LoadArtifact(Fs, d).meta.ty)
  /\ \A r \in LastSaved : r.steps = Processed \o <<"save">>

-----------------------------------------------------------------------------
(* Artifact header *)

\* C26: for every artifact save wrote, the file of its id starts with a
\* length not above the size of the rest of the file, load_artifact_meta
\* returns a meta from that prefix and the meta bytes alone, and that meta is
\* the meta of what load_artifact returns.
C26_HeaderIndependence ==
  \A r \in LastSaved :
    LET file == artifacts[r.id]
    IN /\ Exists(file)
       /\ file[1] >= 0 /\ file[1] <= Len(file) - 1
       /\ LoadArtifactMeta(Fs, r.id).some
       /\ LoadArtifactMeta(Fs, r.id) = ArtifactMetaFromBytes(SubSeq(file, 2, 1 + file[1]))
       /\ LoadArtifactMeta(Fs, r.id) = LoadArtifact(Fs, r.id)

\* C27: load_artifact_meta returns no meta for a stored artifact whose
\* length prefix is zero, and after an import that saved the asset of such
\* an artifact load_artifact_meta returns the meta that import saved.
C27_CorruptHeaderRecovery ==
  /\ [](\A id \in AssetIds :
          Exists(artifacts[id]) /\ artifacts[id][1] = 0 => ~LoadArtifactMeta(Fs, id).some)
  /\ [][ImportStep =>
          \A id \in AssetIds : \A i \in DOMAIN last'.results :
            (/\ last'.results[i].ok
             /\ last'.results[i].id = id
             /\ Exists(artifacts[id]) /\ artifacts[id][1] = 0)
            => LoadArtifactMeta(Fs, id)' = Some(last'.results[i].meta)]_vars

-----------------------------------------------------------------------------
(* Chunks *)

\* C23: chunked_import imports every path of its input once and in input
\* order, a new import_assets call (with its new AssetStore) begins exactly at
\* every 250th path, and the dependents file holds the ids every chunk added:
\* each chunk's update was made on the file the chunk before had left.
C23_Chunking ==
  calc.op = "chunked" =>
    LET r == calc.out
        n == Len(calc.arg)
    IN /\ Len(r.results) = n
       /\ \A i \in 1..n : r.results[i].path = calc.arg[i] /\ r.results[i].ok
       /\ \A i \in 1..n : (r.results[i].proc.store = {}) <=> ((i - 1) % 250 = 0)
       /\ HashSetFromBytes(r.st.dependents[0]).val
            = {2} \cup {r.results[i].id : i \in 1..n}

\* chunked_import ran on a full chunk of a.txt followed by a chunk of b.txt
C23_TwoChunks ==
  /\ calc.op = "chunked"
  /\ Len(calc.arg) = 251
  /\ calc.arg[250] = "a.txt" /\ calc.arg[251] = "b.txt"
  /\ calc.out.results[251].proc.store = {}
  /\ HashSetFromBytes(calc.out.st.dependents[0]).val = {1, 2}

-----------------------------------------------------------------------------
(* Byte codec *)

\* C24: from_bytes(into_bytes(s)) is s for every set of ids, in whatever
\* order the set is iterated when it is encoded.
C24_SetRoundTrip ==
  calc.op = "round" =>
    calc.out = Decoded({calc.arg[i] : i \in DOMAIN calc.arg})

\* a set of two ids was encoded with the greater id first
C24_DescendingOrder ==
  /\ calc.op = "round"
  /\ Len(calc.arg) = 2
  /\ calc.arg[1] > calc.arg[2]
  /\ calc.out.kind = "some"

\* C25: the decoders of u64, usize and HashSet<AssetId> are total: on bytes
\* cut short, or with an item length other than 8, they return None and do
\* not abort.
C25_DecodingTotal ==
  calc.op \in {"decode_set", "decode_u64"} => calc.out.kind # "panic"

-----------------------------------------------------------------------------
(* Registry dispatch *)

\* the register calls that declared an extension
Declaring(ext) == {i \in DOMAIN registry.calls : ext \in registry.calls[i].exts}
\* the register calls whose importer produces an asset type
Producing(ty) == {i \in DOMAIN registry.calls : registry.calls[i].asset = ty}
\* the importer of the last register call of a set of calls
Latest(calls) == registry.calls[CHOOSE i \in calls : \A j \in calls : j <= i].name

\* C28: after any sequence of register calls, importer_by_ext(e) returns
\* the importer that declared e, the most recently registered one when
\* several did, also when another registered importer produces the same
\* asset type under other extensions; it returns none for an extension no
\* importer declared, and importer(ty) returns none for a type no registered
\* importer produces.
C28_RegistryDispatch ==
  /\ \A e \in Extensions :
       RegisteredByExt(registry, e)
         = IF Declaring(e) = {} THEN "" ELSE Latest(Declaring(e))
  /\ \A ty \in AssetTypes :
       Producing(ty) = {} => RegisteredImporter(registry, ty) = ""

-----------------------------------------------------------------------------
(* TaskPool *)

\* the worker threads that are executing their task
Executing == {k \in DOMAIN pool.threads : pool.threads[k].at = "task"}

\* the number of times a task was executed to its end
Executed(t) ==
  Cardinality({k \in DOMAIN pool.threads :
                 pool.threads[k].task = t /\ pool.threads[k].at # "task"})

\* no spawn or completion is in progress, and the pool was not dropped
Quiescent ==
  /\ pool.owner = "idle"
  /\ \A k \in DOMAIN pool.threads : pool.threads[k].at \in {"task", "exited"}

C30_Progress ==
  /\ \A t \in 1..MaxTasks :
       (pool.size >= 1 /\ pool.spawned >= t) ~> (Executed(t) = 1)
  /\ [](\A t \in 1..MaxTasks : Executed(t) <= 1)
  /\ []((pool.size >= 1 /\ Quiescent /\ pool.queue # <<>>)
          => Cardinality(pool.running) = pool.size)

\* a task waited in the queue of a pool of size 1 while the worker ran, and
\* every task was executed in the end
C30_QueuedThenExecuted ==
  /\ pool.size = 1
  /\ pool.spawned = MaxTasks
  /\ pool.owner = "idle"
  /\ \A t \in 1..MaxTasks : Executed(t) = 1

\* C31: the tasks are taken from the queue and given to a new thread in the
\* order they were passed to spawn: a thread started later has a task pushed
\* later, and the tasks still queued were pushed after every started task,
\* in the order of the queue.
C31_Fifo ==
  /\ \A j, k \in DOMAIN pool.threads :
       j < k => pool.threads[j].task < pool.threads[k].task
  /\ \A i \in DOMAIN pool.queue : \A k \in DOMAIN pool.threads :
       pool.threads[k].task < pool.queue[i]
  /\ \A i, j \in DOMAIN pool.queue : i < j => pool.queue[i] < pool.queue[j]

\* a pool of size 1 has started three tasks, the third after the first two
\* had ended
C31_StartedInOrder ==
  /\ pool.size = 1
  /\ Len(pool.threads) = 3
  /\ pool.threads[1].at = "exited"
  /\ pool.threads[2].at = "exited"

\* C32: when the drop of a pool of size at least 1 has returned, every
\* worker thread has ended, the queue is empty and every task passed to spawn
\* was executed; and while drop waits, the handles it took and the running
\* table together hold every thread that has not ended.
C32_Teardown ==
  /\ (pool.size >= 1 /\ pool.owner = "dropped") =>
       /\ \A k \in DOMAIN pool.threads : pool.threads[k].at = "exited"
       /\ pool.queue = <<>>
       /\ \A t \in 1..pool.spawned : Executed(t) = 1
  /\ (pool.size >= 1 /\ pool.owner = "join") =>
       \A k \in DOMAIN pool.threads :
         pool.threads[k].at # "exited" => k \in pool.joining \cup pool.running

\* the scoped threads that are inside their task
ScopedExecuting == {k \in DOMAIN scoped.threads : scoped.threads[k].at = "task"}

\* the threads that were started for the task t
ScopedStarted(t) == {k \in DOMAIN scoped.threads : scoped.threads[k].task = t}

\* C33: run starts the queued tasks in the order they were spawned, in chunks
\* of at most size tasks; while a task of a chunk has started, every task of
\* every earlier chunk has ended; at most size tasks execute at a time; and
\* when a run of a pool of size at least 1 has returned the queue is empty and
\* every spawned task was run exactly once and has ended.
C33_ChunkBarrier ==
  /\ \A j, k \in DOMAIN scoped.threads :
       /\ j < k => /\ scoped.threads[j].task < scoped.threads[k].task
                   /\ scoped.threads[j].chunk <= scoped.threads[k].chunk
       /\ scoped.threads[j].chunk < scoped.threads[k].chunk =>
            scoped.threads[j].at = "done"
  /\ \A k \in DOMAIN scoped.threads :
       Cardinality({j \in DOMAIN scoped.threads :
                     scoped.threads[j].chunk = scoped.threads[k].chunk}) <= scoped.size
  /\ \A i \in DOMAIN scoped.queue : \A k \in DOMAIN scoped.threads :
       scoped.threads[k].task < scoped.queue[i]
  /\ Cardinality(ScopedExecuting) <= scoped.size
  /\ (scoped.size >= 1 /\ scoped.at = "returned") =>
       /\ scoped.queue = <<>>
       /\ ScopedExecuting = {}
       /\ \A t \in 1..scoped.spawned : Cardinality(ScopedStarted(t)) = 1

\* a run of a pool of size 2 over three tasks has returned: a chunk of two
\* and a chunk of one
C33_TwoChunksRun ==
  /\ scoped.size = 2 /\ scoped.at = "returned"
  /\ Len(scoped.threads) = 3
  /\ scoped.threads[2].chunk = 0 /\ scoped.threads[3].chunk = 2

\* a run that has reached its while loop returns
RunReturns == (scoped.at = "loop") ~> (scoped.at = "returned")

\* C37: a TaskPool of any size, 0 included, has executed every task passed to
\* spawn when its drop has returned.
C37_SpawnedIsExecuted ==
  pool.owner = "dropped" => \A t \in 1..pool.spawned : Executed(t) = 1

-----------------------------------------------------------------------------
(* Source files *)

\* C34: no import changes a source file: after every chunk, whether its
\* imports succeeded or failed, every source path holds the bytes it held
\* before.
C34_SourceUntouched ==
  [][ImportStep => \A p \in Paths : source'[p] = source[p]]_vars

\* C35: an import of one source that an earlier import has saved, with the
\* sidecar still in place and the importer declaring the dependencies it
\* declared then, saves a meta with the same id, checksum and dependencies as
\* the one saved before, computes an empty removed set and leaves every
\* dependents file as it was.
C35_ReimportIdempotent ==
  [][ImportStep /\ Len(last'.results) = 1 =>
       LET r == last'.results[1]
       IN (/\ r.ok /\ r.hadSidecar /\ r.before.some
           /\ r.before.meta.dependencies = declared[r.path])
          => /\ r.meta.id = r.before.meta.id
             /\ r.meta.checksum = r.before.meta.checksum
             /\ r.meta.dependencies = r.before.meta.dependencies
             /\ r.removed = {}
             /\ dependents' = dependents]_vars

-----------------------------------------------------------------------------
(* Previous artifact that does not load *)

\* C36: when load_artifact_meta returns no meta for the id of an import that
\* reaches save, save has no previous meta and an empty removed set, the save
\* succeeds unless the write fails, and the id is in the removed set of no
\* dependents update and stays in every dependents file that held it.
C36_UnloadablePreviousIsAbsent ==
  [][ImportStep =>
       \A i \in DOMAIN last'.results : \A d \in AssetIds :
         LET r == last'.results[i]
         IN (/\ r.steps # <<>> /\ r.steps[Len(r.steps)] = "save"
             /\ ~LoadArtifactMeta(Fs, r.id).some)
            => /\ r.prev = None
               /\ r.removed = {}
               /\ r.met = "none" => r.ok
               /\ r.id \notin Removed(last'.results, d)
               /\ r.id \in DependentsOf(d) => r.id \in DependentsOf(d)']_vars

\* an import was saved over an artifact with a zeroed length prefix that had
\* recorded the dependency 0; the importer declares it no longer, and the id
\* is still in the dependents file of 0
C36_StaleEdgeKept ==
  \E r \in LastSaved :
    /\ Exists(artifacts[r.id]) /\ artifacts[r.id][1] = 0
    /\ 0 \in ArtifactMetaFromBytes(SubSeq(artifacts[r.id], 2, Len(artifacts[r.id]) - 1)).meta.dependencies
    /\ 0 \notin r.meta.dependencies
    /\ r.prev = None
    /\ r.id \in DependentsOf(0)

-----------------------------------------------------------------------------
(* DenseMap *)

\* C38: after every sequence of insert, remove, swap_remove and retain calls
\* no call has panicked, keys and values are equally long, the index map
\* holds for every key the index at which keys stores it and every index of
\* keys is the one the map holds for its key, and get yields for every key
\* the value most recently inserted under it, or none when it was removed
\* since or never inserted.
C38_IndexConsistency ==
  LET m == dense.map
  IN /\ ~dense.aborted
     /\ Len(m.keys) = Len(m.values)
     /\ \A k \in DOMAIN m.map :
          m.map[k] # 0 => m.map[k] \in DOMAIN m.keys /\ m.keys[m.map[k]] = k
     /\ \A i \in DOMAIN m.keys : m.map[m.keys[i]] = i
     /\ \A k \in DOMAIN m.map : DenseMapGet(m, k) = dense.latest[k]

====
